---- MODULE Spec2Model ----
(***************************************************************************)
(* mdbook-shiftinclude: the include resolver (src/src/main.rs) and the     *)
(* line extraction and shifting helpers (src/src/string.rs).               *)
(*                                                                         *)
(* Text is a sequence of characters, each character a one-element string   *)
(* ("NBSP" stands for U+00A0, a whitespace character of two UTF-8 bytes).  *)
(* Offsets are 0-based and ranges half-open, as in the Rust source.        *)
(***************************************************************************)
EXTENDS Integers, Sequences, FiniteSets, TLC

\* ------------------------------------------------------------------ bounds
\* Number of pieces the chapter text is built from.
MaxSegs == 2
\* Number of colon-separated fields after the path in a payload token.
MaxFields == 3
\* Number of lines of the generated files handed to the extractors.
MaxLines == 3
\* Largest bound of a generated line range.
MaxIdx == 4
\* Largest explicit shift amount.
MaxShift == 2

\* the number of lines of the files anchors are extracted from
MaxAnchorLines == 5

\* --------------------------------------------------------- program constants
ESCAPE_CHAR == "\\"
MAX_LINK_NESTED_DEPTH == 10

\* ------------------------------------------------------------- characters
NBSP == "NBSP"
Digits == {"0", "1", "2", "3", "4", "5", "6", "7", "8", "9"}
Letters ==
    {"a", "b", "c", "d", "e", "f", "g", "h", "i", "j", "k", "l", "m",
     "n", "o", "p", "q", "r", "s", "t", "u", "v", "w", "x", "y", "z",
     "A", "B", "C", "D", "E", "F", "G", "H", "I", "J", "K", "L", "M",
     "N", "O", "P", "Q", "R", "S", "T", "U", "V", "W", "X", "Y", "Z"}

\* char::is_whitespace, and \s of the regex crate
is_whitespace(c) == c \in {" ", "\n", "\t", "\r", NBSP}

\* [a-zA-Z0-9_] of the link type
IsLinkTypeChar(c) == c \in Letters \cup Digits \cup {"_"}

\* [\w_-] of the anchor name
IsAnchorNameChar(c) == c \in Letters \cup Digits \cup {"_", "-"}

\* Number of UTF-8 bytes of a character
Utf8Len(c) == IF c = NBSP THEN 2 ELSE 1

\* --------------------------------------------------------------- sequences
Min(a, b) == IF a < b THEN a ELSE b
Max(a, b) == IF a > b THEN a ELSE b

\* s[a..b] of Rust on a 0-based half-open range (callers check a <= b <= len)
Slice(s, a, b) == SubSeq(s, a + 1, b)

\* s[a..]
SliceFrom(s, a) == SubSeq(s, a + 1, Len(s))

\* whether lit occurs in s at 0-based offset i
LitAt(s, i, lit) ==
    /\ i >= 0
    /\ i + Len(lit) <= Len(s)
    /\ \A k \in 1..Len(lit) : s[i + k] = lit[k]

\* character classes of the patterns
InClass(c, cls) ==
    CASE cls = "ws" -> is_whitespace(c)
      [] cls = "linktype" -> IsLinkTypeChar(c)
      [] cls = "anchorname" -> IsAnchorNameChar(c)
      [] cls = "notbrace" -> c # "}"
      [] cls = "notnewline" -> c # "\n"
      [] cls = "notws" -> ~is_whitespace(c)
      [] cls = "notcolon" -> c # ":"
      [] cls = "digit" -> c \in Digits
      [] cls = "notslash" -> c # "/"

\* the first offset >= i whose character is not in the class, or Len(s)
RECURSIVE RunEnd(_, _, _)
RunEnd(s, i, cls) ==
    IF i < Len(s) /\ InClass(s[i + 1], cls) THEN RunEnd(s, i + 1, cls) ELSE i

RECURSIVE Concat(_)
Concat(ss) == IF ss = <<>> THEN <<>> ELSE Head(ss) \o Concat(Tail(ss))

\* Option<T>: <<>> is None, <<x>> is Some(x)
None == <<>>
Some(x) == <<x>>

\* ------------------------------------------------ selector parser (main.rs)
\* str::splitn(n, ':'): at most n fields, the last one holding the rest
RECURSIVE splitn(_, _)
splitn(s, n) ==
    LET k == RunEnd(s, 0, "notcolon")
    IN  IF n <= 1 \/ k = Len(s)
        THEN <<s>>
        ELSE <<Slice(s, 0, k)>> \o splitn(SliceFrom(s, k + 1), n - 1)

DigitVal(c) ==
    CASE c = "0" -> 0 [] c = "1" -> 1 [] c = "2" -> 2 [] c = "3" -> 3
      [] c = "4" -> 4 [] c = "5" -> 5 [] c = "6" -> 6 [] c = "7" -> 7
      [] c = "8" -> 8 [] c = "9" -> 9

RECURSIVE DigitsValue(_)
DigitsValue(ds) ==
    IF ds = <<>> THEN 0
    ELSE 10 * DigitsValue(SubSeq(ds, 1, Len(ds) - 1)) + DigitVal(ds[Len(ds)])

\* str::parse::<usize>(): an optional '+' and at least one digit; anything
\* else is Err.  (A value above usize::MAX is Err too; the fields generated
\* here have at most three digits.)
ParseUsize(f) ==
    LET body == IF f # <<>> /\ f[1] = "+" THEN Tail(f) ELSE f
    IN  IF body # <<>> /\ RunEnd(body, 0, "digit") = Len(body)
        THEN [ok |-> TRUE, val |-> DigitsValue(body)]
        ELSE [ok |-> FALSE, val |-> 0]

\* usize::saturating_sub
saturating_sub_Distance(a, b) == IF a >= b THEN a - b ELSE b - a
saturating_sub(a, b) == IF a >= b THEN a - b ELSE 0

\* line 251: "subtract 1 since line numbers usually begin with 1"
OneBasedToZero_Kept(value) == value
OneBasedToZero(value) == saturating_sub(value, 1)

\* RangeOrAnchor: Range(LineRange) with the four bound shapes, or Anchor(name)
MkRange(start, end) ==
    [tag |-> "Range", start |-> start, end |-> end, anchor |-> <<>>]
MkAnchor(name) ==
    [tag |-> "Anchor", start |-> None, end |-> None, anchor |-> name]
RangeFull == MkRange(None, None)

parse_range_or_anchor_OpenSingle(parts) ==
    LET fields == splitn(IF parts = None THEN <<>> ELSE parts[1], 3)
        next_element == fields[1]
        first == ParseUsize(next_element)
        start == IF first.ok THEN Some(OneBasedToZero(first.val)) ELSE None
        end == IF Len(fields) >= 2 THEN Some(ParseUsize(fields[2])) ELSE None
    IN  IF ~first.ok /\ next_element # <<>>
        THEN MkAnchor(next_element)
        ELSE CASE start # None /\ end # None /\ end[1].ok ->
                    MkRange(start, Some(end[1].val))
               [] start # None -> MkRange(start, None)
               [] start = None /\ end # None /\ end[1].ok ->
                    MkRange(None, Some(end[1].val))
               [] OTHER -> RangeFull

parse_range_or_anchor(parts) ==
    LET fields == splitn(IF parts = None THEN <<>> ELSE parts[1], 3)
        next_element == fields[1]
        first == ParseUsize(next_element)
        start == IF first.ok THEN Some(OneBasedToZero(first.val)) ELSE None
        end == IF Len(fields) >= 2 THEN Some(ParseUsize(fields[2])) ELSE None
    IN  IF ~first.ok /\ next_element # <<>>
        THEN MkAnchor(next_element)
        ELSE CASE start # None /\ end # None /\ end[1].ok ->
                    MkRange(start, Some(end[1].val))
               [] start # None /\ end # None /\ ~end[1].ok ->
                    MkRange(start, None)
               [] start # None /\ end = None ->
                    MkRange(start, Some(start[1] + 1))
               [] start = None /\ end # None /\ end[1].ok ->
                    MkRange(None, Some(end[1].val))
               [] OTHER -> RangeFull

\* LinkType: Escaped, or Include(path, range_or_anchor)
Escaped == [tag |-> "Escaped", path |-> <<>>, range_or_anchor |-> RangeFull]
Include(p, roa) == [tag |-> "Include", path |-> p, range_or_anchor |-> roa]

parse_include_path(path) ==
    LET parts == splitn(path, 2)
    IN  Include(parts[1],
                parse_range_or_anchor(IF Len(parts) >= 2 THEN Some(parts[2])
                                      ELSE None))

\* --------------------------------------------- directive scanner (main.rs)
LIT_ESCAPED_OPEN == <<"\\", "{", "{", "#">>
LIT_OPEN == <<"{", "{">>
LIT_CLOSE == <<"}", "}">>
LIT_INCLUDE == <<"i", "n", "c", "l", "u", "d", "e">>

\* A capture of the pattern: group 0 as [start, end), groups 1 and 2 as
\* Option of text.
Capture(start, end, typ, rest) ==
    [start |-> start, end |-> end, typ |-> typ, rest |-> rest]

\* First alternative at offset i:  \\\{\{\#.*\}\}
\* `.` excludes the newline and `.*` is greedy: the match ends at the last
\* closing pair on the line.
EscapedCaptureAt(s, i) ==
    IF ~LitAt(s, i, LIT_ESCAPED_OPEN) THEN None
    ELSE LET lineEnd == RunEnd(s, i + 4, "notnewline")
             ends == {j \in (i + 6)..lineEnd : LitAt(s, j - 2, LIT_CLOSE)}
         IN  IF ends = {} THEN None
             ELSE Some(Capture(i, CHOOSE j \in ends : \A k \in ends : k <= j,
                               None, None))

\* Second alternative at offset i:  \{\{\s*\#([a-zA-Z0-9_]+)\s+([^}]+)\}\}
\* The separating whitespace is greedy but gives back one character when the
\* payload would otherwise be empty.
DirectiveCaptureAt(s, i) ==
    IF ~LitAt(s, i, LIT_OPEN) THEN None
    ELSE LET hash == RunEnd(s, i + 2, "ws")
             typEnd == RunEnd(s, hash + 1, "linktype")
             wsEnd == RunEnd(s, typEnd, "ws")
             restEnd == RunEnd(s, typEnd, "notbrace")
             restStart == IF wsEnd < restEnd THEN wsEnd ELSE restEnd - 1
         IN  IF /\ LitAt(s, hash, <<"#">>)
                /\ typEnd > hash + 1
                /\ wsEnd > typEnd
                /\ restStart > typEnd
                /\ LitAt(s, restEnd, LIT_CLOSE)
             THEN Some(Capture(i, restEnd + 2,
                               Some(Slice(s, hash + 1, typEnd)),
                               Some(Slice(s, restStart, restEnd))))
             ELSE None

\* Leftmost-first: at one offset the first alternative is tried first.
CaptureAt(s, i) ==
    IF EscapedCaptureAt(s, i) # None THEN EscapedCaptureAt(s, i)
    ELSE DirectiveCaptureAt(s, i)

\* Regex::captures_iter: successive non-overlapping leftmost captures
RECURSIVE captures_iter(_, _)
captures_iter(s, from) ==
    LET starts == {i \in from..(Len(s) - 1) : CaptureAt(s, i) # None}
    IN  IF starts = {} THEN <<>>
        ELSE LET i == CHOOSE j \in starts : \A k \in starts : j <= k
                 cap == CaptureAt(s, i)[1]
             IN  <<cap>> \o captures_iter(s, cap.end)

\* str::split_whitespace().next()
first_token(rest) ==
    LET a == RunEnd(rest, 0, "ws")
    IN  IF a = Len(rest) THEN None
        ELSE Some(Slice(rest, a, RunEnd(rest, a, "notws")))

Link(start_index, end_index, link_type, link_text) ==
    [start_index |-> start_index, end_index |-> end_index,
     link_type |-> link_type, link_text |-> link_text]

\* Link::from_capture: Option<Link>
from_capture(s, cap) ==
    LET mat == Slice(s, cap.start, cap.end)
        link_type ==
            IF cap.typ # None /\ cap.rest # None
            THEN LET file_arg == first_token(cap.rest[1])
                 IN  IF cap.typ[1] = LIT_INCLUDE /\ file_arg # None
                     THEN Some(parse_include_path(file_arg[1]))
                     ELSE None
            ELSE IF cap.typ = None /\ cap.rest = None /\ mat[1] = ESCAPE_CHAR
            THEN Some(Escaped)
            ELSE None
    IN  IF link_type = None THEN None
        ELSE Some(Link(cap.start, cap.end, link_type[1], mat))

\* LinkIter::next over all captures: the captures that give a link, in order
RECURSIVE LinkIter(_, _)
LinkIter(s, caps) ==
    IF caps = <<>> THEN <<>>
    ELSE LET inc == from_capture(s, Head(caps))
         IN  (IF inc = None THEN <<>> ELSE <<inc[1]>>) \o LinkIter(s, Tail(caps))

find_links(contents) == LinkIter(contents, captures_iter(contents, 0))

\* ------------------------------------------- lines and shifting (string.rs)
\* str::lines(): split at "\n" (a "\r" before it is dropped too); a final
\* empty line is not produced
RECURSIVE lines(_)
lines(s) ==
    IF s = <<>> THEN <<>>
    ELSE LET k == RunEnd(s, 0, "notnewline")
             e == IF k < Len(s) /\ k > 0 /\ s[k] = "\r" THEN k - 1 ELSE k
         IN  IF k = Len(s) THEN <<Slice(s, 0, k)>>
             ELSE <<Slice(s, 0, e)>> \o lines(SliceFrom(s, k + 1))

\* [String]::join("\n")
RECURSIVE join_TrailingNewline(_)
join_TrailingNewline(ls) ==
    IF ls = <<>> THEN <<>>
    ELSE ls[1] \o <<"\n">> \o join_TrailingNewline(Tail(ls))

RECURSIVE join(_)
join(ls) ==
    IF ls = <<>> THEN <<>>
    ELSE IF Len(ls) = 1 THEN ls[1]
    ELSE ls[1] \o <<"\n">> \o join(Tail(ls))

\* Iterator::skip(n) and Iterator::take(n) on a sequence
skip(xs, n) == SubSeq(xs, Min(n, Len(xs)) + 1, Len(xs))
take(xs, n) == SubSeq(xs, 1, Min(n, Len(xs)))

\* Shift and ExplicitShift
ShiftNone == [tag |-> "None", n |-> 0]
ShiftLeft(n) == [tag |-> "Left", n |-> n]
ShiftRight(n) == [tag |-> "Right", n |-> n]
ShiftAuto == [tag |-> "Auto", n |-> 0]

\* String::len(): the length in bytes
RECURSIVE ByteLen(_)
ByteLen(s) == IF s = <<>> THEN 0 ELSE Utf8Len(Head(s)) + ByteLen(Tail(s))

\* chars().zip(ws).take_while(|(a, b)| a == b).map(|(a, _)| a)
RECURSIVE CommonPrefix(_, _)
CommonPrefix(a, b) ==
    IF a # <<>> /\ b # <<>> /\ Head(a) = Head(b)
    THEN <<Head(a)>> \o CommonPrefix(Tail(a), Tail(b))
    ELSE <<>>

\* the loop of common_leading_ws from line i on, common_ws an Option
RECURSIVE common_leading_ws_loop(_, _, _)
common_leading_ws_loop(ls, i, common_ws) ==
    IF i > Len(ls) THEN common_ws
    ELSE IF ls[i] = <<>> THEN common_leading_ws_loop(ls, i + 1, common_ws)
    ELSE LET ws == Slice(ls[i], 0, RunEnd(ls[i], 0, "ws"))
         IN  common_leading_ws_loop(ls, i + 1,
                 IF common_ws # None THEN Some(CommonPrefix(common_ws[1], ws))
                 ELSE Some(ws))

common_leading_ws(ls) ==
    LET common_ws == common_leading_ws_loop(ls, 1, None)
    IN  IF common_ws = None THEN <<>> ELSE common_ws[1]

calculate_shift(ls, shift) ==
    CASE shift.tag = "None" -> ShiftNone
      [] shift.tag = "Left" -> ShiftLeft(shift.n)
      [] shift.tag = "Right" -> ShiftRight(shift.n)
      [] shift.tag = "Auto" -> ShiftLeft(ByteLen(common_leading_ws(ls)))

shift_line_RightSkipsEmpty(l, shift) ==
    CASE shift.tag = "None" -> l
      [] shift.tag = "Right" ->
            IF l = <<>> THEN l ELSE [k \in 1..shift.n |-> " "] \o l
      [] shift.tag = "Left" -> skip(l, shift.n)

shift_line(l, shift) ==
    CASE shift.tag = "None" -> l
      [] shift.tag = "Right" -> [k \in 1..shift.n |-> " "] \o l
      [] shift.tag = "Left" -> skip(l, shift.n)

\* whether shift_line logs "left-shifting away non-whitespace"
shift_line_logs(l, shift) ==
    /\ shift.tag = "Left"
    /\ \E k \in 1..Min(shift.n, Len(l)) : ~is_whitespace(l[k])

\* the diagnostics of shift_lines: one for every line shift_line logs for
shift_lines_log(ls, shift) ==
    LET explicit == calculate_shift(ls, shift)
        logging == SelectSeq(ls, LAMBDA l : shift_line_logs(l, explicit))
    IN  [k \in 1..Len(logging) |-> "left-shifting away non-whitespace"]

shift_lines(ls, shift) ==
    LET explicit == calculate_shift(ls, shift)
    IN  [k \in 1..Len(ls) |-> shift_line(ls[k], explicit)]

\* range.start_bound() of a LineRange is Included(n) or Unbounded, its
\* end_bound() Excluded(end) or Unbounded.
take_lines_with_shift_EndIncluded(s, range, shift) ==
    LET start == IF range.start = None THEN 0 ELSE range.start[1]
        rest == skip(lines(s), start)
        retained == IF range.end = None THEN rest
                    ELSE take(rest, saturating_sub(range.end[1] + 1, start))
    IN  join(shift_lines(retained, shift))

take_lines_with_shift(s, range, shift) ==
    LET start == IF range.start = None THEN 0 ELSE range.start[1]
        rest == skip(lines(s), start)
        retained == IF range.end = None THEN rest
                    ELSE take(rest, saturating_sub(range.end[1], start))
    IN  join(shift_lines(retained, shift))

LIT_ANCHOR_START == <<"A", "N", "C", "H", "O", "R", ":">>
LIT_ANCHOR_END == <<"A", "N", "C", "H", "O", "R", "_", "E", "N", "D", ":">>

\* Regex::captures of  <marker>\s*(?P<anchor_name>[\w_-]+)  on a line: the
\* name captured by the leftmost match, as an Option
anchor_captures(l, marker) ==
    LET NameAt(i) ==
            LET a == RunEnd(l, i + Len(marker), "ws")
            IN  Slice(l, a, RunEnd(l, a, "anchorname"))
        starts == {i \in 0..(Len(l) - 1) :
                       LitAt(l, i, marker) /\ NameAt(i) # <<>>}
    IN  IF starts = {} THEN None
        ELSE Some(NameAt(CHOOSE i \in starts : \A k \in starts : i <= k))

\* the loop of take_anchored_lines_with_shift from line i on
RECURSIVE anchored_loop_Restarts(_, _, _, _, _)
anchored_loop_Restarts(ls, i, anchor, anchor_found, retained) ==
    IF i > Len(ls) THEN retained
    ELSE LET l == ls[i]
             end_cap == anchor_captures(l, LIT_ANCHOR_END)
             start_cap == anchor_captures(l, LIT_ANCHOR_START)
         IN  IF anchor_found
             THEN IF end_cap # None
                  THEN IF end_cap[1] = anchor THEN retained
                       ELSE anchored_loop_Restarts(ls, i + 1, anchor, TRUE,
                                                   retained)
                  ELSE anchored_loop_Restarts(ls, i + 1, anchor, TRUE,
                           IF start_cap = None THEN Append(retained, l)
                           ELSE IF start_cap[1] = anchor THEN <<>>
                           ELSE retained)
             ELSE anchored_loop_Restarts(ls, i + 1, anchor,
                      start_cap # None /\ start_cap[1] = anchor, retained)

RECURSIVE anchored_loop_RequiresEnd(_, _, _, _, _)
anchored_loop_RequiresEnd(ls, i, anchor, anchor_found, retained) ==
    IF i > Len(ls) THEN <<>>
    ELSE LET l == ls[i]
             end_cap == anchor_captures(l, LIT_ANCHOR_END)
             start_cap == anchor_captures(l, LIT_ANCHOR_START)
         IN  IF anchor_found
             THEN IF end_cap # None
                  THEN IF end_cap[1] = anchor THEN retained
                       ELSE anchored_loop_RequiresEnd(ls, i + 1, anchor, TRUE,
                                                      retained)
                  ELSE anchored_loop_RequiresEnd(ls, i + 1, anchor, TRUE,
                           IF start_cap = None THEN Append(retained, l)
                           ELSE retained)
             ELSE anchored_loop_RequiresEnd(ls, i + 1, anchor,
                      start_cap # None /\ start_cap[1] = anchor, retained)

RECURSIVE anchored_loop_KeepsOtherEnd(_, _, _, _, _)
anchored_loop_KeepsOtherEnd(ls, i, anchor, anchor_found, retained) ==
    IF i > Len(ls) THEN retained
    ELSE LET l == ls[i]
             end_cap == anchor_captures(l, LIT_ANCHOR_END)
             start_cap == anchor_captures(l, LIT_ANCHOR_START)
         IN  IF anchor_found
             THEN IF end_cap # None
                  THEN IF end_cap[1] = anchor THEN retained
                       ELSE anchored_loop_KeepsOtherEnd(ls, i + 1, anchor,
                                TRUE, Append(retained, l))
                  ELSE anchored_loop_KeepsOtherEnd(ls, i + 1, anchor, TRUE,
                           IF start_cap = None THEN Append(retained, l)
                           ELSE retained)
             ELSE anchored_loop_KeepsOtherEnd(ls, i + 1, anchor,
                      start_cap # None /\ start_cap[1] = anchor, retained)

RECURSIVE anchored_loop_AllRegions(_, _, _, _, _)
anchored_loop_AllRegions(ls, i, anchor, anchor_found, retained) ==
    IF i > Len(ls) THEN retained
    ELSE LET l == ls[i]
             end_cap == anchor_captures(l, LIT_ANCHOR_END)
             start_cap == anchor_captures(l, LIT_ANCHOR_START)
         IN  IF anchor_found
             THEN IF end_cap # None
                  THEN anchored_loop_AllRegions(ls, i + 1, anchor,
                           end_cap[1] # anchor, retained)
                  ELSE anchored_loop_AllRegions(ls, i + 1, anchor, TRUE,
                           IF start_cap = None THEN Append(retained, l)
                           ELSE retained)
             ELSE anchored_loop_AllRegions(ls, i + 1, anchor,
                      start_cap # None /\ start_cap[1] = anchor, retained)

RECURSIVE anchored_loop(_, _, _, _, _)
anchored_loop(ls, i, anchor, anchor_found, retained) ==
    IF i > Len(ls) THEN retained
    ELSE LET l == ls[i]
             end_cap == anchor_captures(l, LIT_ANCHOR_END)
             start_cap == anchor_captures(l, LIT_ANCHOR_START)
         IN  IF anchor_found
             THEN IF end_cap # None
                  THEN IF end_cap[1] = anchor THEN retained
                       ELSE anchored_loop(ls, i + 1, anchor, TRUE, retained)
                  ELSE anchored_loop(ls, i + 1, anchor, TRUE,
                           IF start_cap = None THEN Append(retained, l)
                           ELSE retained)
             ELSE anchored_loop(ls, i + 1, anchor,
                      start_cap # None /\ start_cap[1] = anchor, retained)

take_anchored_lines_with_shift(s, anchor, shift) ==
    join(shift_lines(anchored_loop(lines(s), 1, anchor, FALSE, <<>>), shift))

\* The two wrappers main.rs imports from string.rs: extraction without shift.
take_lines(s, range) == take_lines_with_shift(s, range, ShiftNone)
take_anchored_lines(s, anchor) ==
    take_anchored_lines_with_shift(s, anchor, ShiftNone)

\* ------------------------------------------------------- paths (main.rs)
\* A path is the sequence of its components below the file-system root; the
\* book's source directory is taken to be the root.
RECURSIVE PathComponents(_)
PathComponents(p) ==
    IF p = <<>> THEN <<>>
    ELSE LET k == RunEnd(p, 0, "notslash")
             rest == IF k = Len(p) THEN <<>> ELSE SliceFrom(p, k + 1)
         IN  (IF k = 0 THEN <<>> ELSE <<Slice(p, 0, k)>>) \o PathComponents(rest)

\* Path::join: an absolute argument replaces the base
path_join(base, p) ==
    IF p # <<>> /\ p[1] = "/" THEN PathComponents(p)
    ELSE base \o PathComponents(p)

\* Path::parent: None for the root
path_parent(p) == IF p = <<>> THEN None ELSE Some(SubSeq(p, 1, Len(p) - 1))

\* return_relative_path before its expect(): Option<PathBuf>
return_relative_path_KeepsBase(base, relative) == Some(base)
return_relative_path(base, relative) == path_parent(path_join(base, relative))

\* LinkType::relative_path: None for Escaped; for Include, Some of what
\* return_relative_path gives (None inside stands for the failed expect())
relative_path(link_type, base) ==
    IF link_type.tag = "Escaped" THEN None
    ELSE Some(return_relative_path(base, link_type.path))

\* fs::read_to_string on the file system fs (a function from paths to text)
read_to_string(fs, target) ==
    IF target \in DOMAIN fs THEN [ok |-> TRUE, text |-> fs[target]]
    ELSE [ok |-> FALSE, text |-> <<>>]

\* Link::render_with_path: Result<String>
render_with_path(fs, link, base) ==
    IF link.link_type.tag = "Escaped"
    THEN [ok |-> TRUE, text |-> SliceFrom(link.link_text, 1)]
    ELSE LET file == read_to_string(fs, path_join(base, link.link_type.path))
             roa == link.link_type.range_or_anchor
         IN  IF ~file.ok THEN file
             ELSE [ok |-> TRUE,
                   text |-> IF roa.tag = "Range" THEN take_lines(file.text, roa)
                            ELSE take_anchored_lines(file.text, roa.anchor)]

\* ------------------------------------------------------------ the inputs
\* {{#include <payload>}}
INC(payload) == LIT_OPEN \o <<"#">> \o LIT_INCLUDE \o <<" ">> \o payload \o LIT_CLOSE

P_LIT == <<"x">>
P_NL == <<"\n">>
P_INC_A == INC(<<"a">>)
P_INC_B == INC(<<"b">>)
P_INC_DA == INC(<<"d", "/", "a">>)
P_INC_A_FROM == INC(<<"a", ":", "2", ":">>)
P_INC_A_ANCHOR == INC(<<"a", ":", "t">>)
P_ESC == <<ESCAPE_CHAR>> \o INC(<<"a">>)
P_UNKNOWN == <<"{", "{", "#", "f", "o", "o", " ", "a", "}", "}">>
P_EMPTY == LIT_OPEN \o <<"#">> \o LIT_INCLUDE \o <<" ", " ">> \o LIT_CLOSE
P_PARTIAL == LIT_OPEN \o <<"#">> \o LIT_INCLUDE

\* pieces no include or escape occurrence can be made of
NoLinkPieces == {P_LIT, P_NL, P_UNKNOWN, P_EMPTY}
Pieces ==
    NoLinkPieces \cup
    {P_INC_A, P_INC_B, P_INC_DA, P_INC_A_FROM, P_INC_A_ANCHOR, P_ESC, P_PARTIAL}

\* the texts made of 1..n pieces of ps
TextsOver(ps, n) ==
    UNION {{Concat(c) : c \in [1..k -> ps]} : k \in 1..n}

ChapterTexts == TextsOver(Pieces, MaxSegs)

\* texts with directive syntax in which the scanner has nothing to report:
\* unknown and empty directives, and a partial directive at the very end
NoLinkTexts ==
    LET body == TextsOver(NoLinkPieces, MaxSegs) \cup {<<>>}
    IN  body \cup {b \o P_PARTIAL : b \in body}

\* the directory of the chapter: the root of the book's sources
ChapterBases == {<<>>}

PATH_A == <<<<"a">>>>
PATH_B == <<<<"b">>>>
PATH_DA == <<<<"d">>, <<"a">>>>
PATH_DB == <<<<"d">>, <<"b">>>>

F_PLAIN == <<"x", "\n", "y", "\n">>
F_OTHER == <<"w">>
F_TO_A == <<"z">> \o P_INC_A
F_TO_B == P_INC_B \o <<"y">>
F_ESC_TO_A == P_ESC \o <<"\n">> \o P_INC_A
F_TWO == P_INC_A \o P_INC_B
F_ANCHORED ==
    <<"u", "\n">> \o LIT_ANCHOR_START \o <<" ", "t", "\n", "x", "\n">>
    \o LIT_ANCHOR_END \o <<" ", "t", "\n", "y">>

NoFiles == [q \in {} |-> <<>>]

\* The file systems: no file at all, a plain file, a file including itself,
\* two files including each other, a chain, a cycle with an escaped
\* directive in it, a file whose include fails, a cyclic and an acyclic
\* include side by side, files in a subdirectory, a file with an anchor.
FileSystems ==
    { NoFiles,
      PATH_A :> F_PLAIN,
      PATH_A :> F_TO_A,
      (PATH_A :> F_TO_B) @@ (PATH_B :> F_TO_A),
      (PATH_A :> F_TO_B) @@ (PATH_B :> F_PLAIN),
      PATH_A :> F_ESC_TO_A,
      PATH_A :> F_TO_B,
      (PATH_A :> F_TWO) @@ (PATH_B :> F_OTHER),
      (PATH_DA :> F_TO_B) @@ (PATH_DB :> F_PLAIN) @@ (PATH_B :> F_OTHER),
      PATH_A :> F_ANCHORED }

\* ---------------------------------------------------------------- state
VARIABLES
    files,      \* the file system: a function from paths to file contents
    chapter,    \* the chapter's content as handed to run()
    base,       \* the chapter's directory
    pc,         \* "start", "run", "done" or "panic"
    stack,      \* the activations of replace_all, the innermost last
    content,    \* ch.content after run()
    returned,   \* Option: the last activation of replace_all that returned
    reads,      \* the targets fs::read_to_string was called with
    log,        \* the diagnostics emitted
    call        \* the function application of the specifications of the
                \* selector parser and the extractors

vars == <<files, chapter, base, pc, stack, content, returned, reads, log, call>>

NoCall == [fn |-> "none"]

\* An activation of replace_all(s, path, source, depth): its arguments, the
\* links find_links(s) yields, the index of the next one, the locals
\* previous_end_index and replaced; handled records what was done for each
\* link consumed, reads0 how many reads preceded the activation.
Frame(s, path, depth, reads0) ==
    [s |-> s, path |-> path, depth |-> depth, links |-> find_links(s),
     next |-> 1, previous_end_index |-> 0, replaced |-> <<>>,
     handled |-> <<>>, reads0 |-> reads0]

Handled(outcome, rendered, appended, nreads) ==
    [outcome |-> outcome, rendered |-> rendered, appended |-> appended,
     nreads |-> nreads]

\* ------------------------------------------------- replace_all (main.rs)
Top == stack[Len(stack)]
HasLink == Len(stack) > 0 /\ Top.next <= Len(Top.links)
CurLink == Top.links[Top.next]
Rendered == render_with_path(files, CurLink, Top.path)

\* &s[previous_end_index..link.start_index] panics on a reversed range
SliceValid(f, link) ==
    f.previous_end_index <= link.start_index /\ link.start_index <= Len(f.s)

\* line 127: replaced.push_str(&s[previous_end_index..link.start_index])
PushGap(f, link) ==
    f.replaced \o Slice(f.s, f.previous_end_index, link.start_index)

\* the reads render_with_path makes for a link
ReadsFor(f, link) ==
    IF link.link_type.tag = "Include"
    THEN <<path_join(f.path, link.link_type.path)>>
    ELSE <<>>

\* the cursor after a link that rendered (line 143) and after one that
\* failed (line 153)
CursorAfterOk_StaysAtStart(link) == link.start_index
CursorAfterOk(link) == link.end_index
CursorAfterErr_SkipsLink(link) == link.end_index
CursorAfterErr(link) == link.start_index

\* whether an Ok link at this depth is expanded (line 131)
BelowCeiling_OffByOne(depth) == depth <= MAX_LINK_NESTED_DEPTH
BelowCeiling(depth) == depth < MAX_LINK_NESTED_DEPTH

\* what is pushed for an Ok link once the ceiling is reached (lines 137-142:
\* the diagnostic only)
PushedAtCeiling(new_content) == <<>>

\* lines 158-159: the value replace_all returns
ReturnValue_NoTail(f) == f.replaced
ReturnValue(f) == f.replaced \o SliceFrom(f.s, f.previous_end_index)

\* one iteration of the loop that ends in the same activation
Consume(f, link, appended, cursor, entry) ==
    [f EXCEPT !.replaced = PushGap(f, link) \o appended,
              !.previous_end_index = cursor,
              !.next = @ + 1,
              !.handled = Append(@, entry)]

ReplaceTop(f) == [stack EXCEPT ![Len(stack)] = f]

Returned(f, out) ==
    [s |-> f.s, path |-> f.path, depth |-> f.depth, links |-> f.links,
     handled |-> f.handled, out |-> out, nreads |-> Len(reads) - f.reads0]

\* Preprocessor::run calls replace_all(&ch.content, base, chapter_path, 0)
CanRun == pc = "start"

Run ==
    /\ CanRun
    /\ pc' = "run"
    /\ stack' = <<Frame(chapter, base, 0, Len(reads))>>
    /\ UNCHANGED <<files, chapter, base, content, returned, reads, log, call>>

\* An include that rendered, below the ceiling: replace_all is called on the
\* rendered content with the directory of the included file (lines 131-133)
CanLinkInclude ==
    /\ pc = "run" /\ HasLink
    /\ Rendered.ok
    /\ BelowCeiling(Top.depth)
    /\ relative_path(CurLink.link_type, Top.path) # None

LinkInclude ==
    /\ CanLinkInclude
    /\ LET rel_path == relative_path(CurLink.link_type, Top.path)[1]
       IN  IF SliceValid(Top, CurLink) /\ rel_path # None
           THEN /\ stack' = Append(
                        ReplaceTop([Top EXCEPT !.replaced = PushGap(Top, CurLink)]),
                        Frame(Rendered.text, rel_path[1], Top.depth + 1,
                              Len(reads) + 1))
                /\ reads' = reads \o ReadsFor(Top, CurLink)
                /\ pc' = pc
           ELSE pc' = "panic" /\ UNCHANGED <<stack, reads>>
    /\ UNCHANGED <<files, chapter, base, content, returned, log, call>>

\* An escaped link below the ceiling: the text without its escape character
\* is pushed as it is (lines 134-136)
CanLinkEscaped ==
    /\ pc = "run" /\ HasLink
    /\ Rendered.ok
    /\ BelowCeiling(Top.depth)
    /\ relative_path(CurLink.link_type, Top.path) = None

LinkEscaped ==
    /\ CanLinkEscaped
    /\ IF SliceValid(Top, CurLink)
       THEN /\ stack' = ReplaceTop(Consume(Top, CurLink, Rendered.text,
                            CursorAfterOk(CurLink),
                            Handled("escaped", Some(Rendered.text),
                                    Rendered.text, 0)))
            /\ pc' = pc
       ELSE pc' = "panic" /\ UNCHANGED stack
    /\ UNCHANGED <<files, chapter, base, content, returned, reads, log, call>>

\* A link that rendered at the ceiling: the diagnostic (lines 137-143)
CanLinkDepthExceeded ==
    /\ pc = "run" /\ HasLink
    /\ Rendered.ok
    /\ ~BelowCeiling(Top.depth)

LinkDepthExceeded ==
    /\ CanLinkDepthExceeded
    /\ IF SliceValid(Top, CurLink)
       THEN /\ stack' = ReplaceTop(Consume(Top, CurLink,
                            PushedAtCeiling(Rendered.text),
                            CursorAfterOk(CurLink),
                            Handled("ceiling", Some(Rendered.text),
                                    PushedAtCeiling(Rendered.text),
                                    Len(ReadsFor(Top, CurLink)))))
            /\ reads' = reads \o ReadsFor(Top, CurLink)
            /\ log' = Append(log, "Stack depth exceeded")
            /\ pc' = pc
       ELSE pc' = "panic" /\ UNCHANGED <<stack, reads, log>>
    /\ UNCHANGED <<files, chapter, base, content, returned, call>>

\* A link that failed to render: two diagnostics, and the cursor is set to
\* the start of the link (lines 145-154)
CanLinkError ==
    /\ pc = "run" /\ HasLink
    /\ ~Rendered.ok

LinkError ==
    /\ CanLinkError
    /\ IF SliceValid(Top, CurLink)
       THEN /\ stack' = ReplaceTop(Consume(Top, CurLink, <<>>,
                            CursorAfterErr(CurLink),
                            Handled("error", None, <<>>,
                                    Len(ReadsFor(Top, CurLink)))))
            /\ reads' = reads \o ReadsFor(Top, CurLink)
            /\ log' = log \o <<"Error updating", "Caused By">>
            /\ pc' = pc
       ELSE pc' = "panic" /\ UNCHANGED <<stack, reads, log>>
    /\ UNCHANGED <<files, chapter, base, content, returned, call>>

\* The loop of a nested activation is over: it returns, and the caller
\* pushes the value and moves its cursor (lines 158-159, 133, 143)
CanReturn == pc = "run" /\ Len(stack) > 1 /\ ~HasLink

Return ==
    /\ CanReturn
    /\ IF Top.previous_end_index <= Len(Top.s)
       THEN LET out == ReturnValue(Top)
                caller == stack[Len(stack) - 1]
                link == caller.links[caller.next]
            IN  /\ stack' = Append(SubSeq(stack, 1, Len(stack) - 2),
                         [caller EXCEPT
                             !.replaced = @ \o out,
                             !.previous_end_index = CursorAfterOk(link),
                             !.next = @ + 1,
                             !.handled = Append(@,
                                 Handled("included", Some(Top.s), out, 1))])
                /\ returned' = Some(Returned(Top, out))
                /\ pc' = pc
       ELSE pc' = "panic" /\ UNCHANGED <<stack, returned>>
    /\ UNCHANGED <<files, chapter, base, content, reads, log, call>>

\* The loop of the outermost activation is over: run() stores the value in
\* the chapter (lines 158-159, 104-105)
CanFinish == pc = "run" /\ Len(stack) = 1 /\ ~HasLink

Finish ==
    /\ CanFinish
    /\ IF Top.previous_end_index <= Len(Top.s)
       THEN /\ content' = ReturnValue(Top)
            /\ returned' = Some(Returned(Top, ReturnValue(Top)))
            /\ stack' = <<>>
            /\ pc' = "done"
       ELSE pc' = "panic" /\ UNCHANGED <<stack, content, returned>>
    /\ UNCHANGED <<files, chapter, base, reads, log, call>>

Init ==
    /\ files \in FileSystems
    /\ chapter \in ChapterTexts
    /\ base \in ChapterBases
    /\ pc = "start"
    /\ stack = <<>>
    /\ content = chapter
    /\ returned = None
    /\ reads = <<>>
    /\ log = <<>>
    /\ call = NoCall

Next ==
    \/ Run
    \/ LinkInclude
    \/ LinkEscaped
    \/ LinkDepthExceeded
    \/ LinkError
    \/ Return
    \/ Finish

Spec == Init /\ [][Next]_vars

\* the guards of the actions of Next: some step can be taken
CanStep ==
    \/ CanRun
    \/ CanLinkInclude
    \/ CanLinkEscaped
    \/ CanLinkDepthExceeded
    \/ CanLinkError
    \/ CanReturn
    \/ CanFinish

\* ------------------------------------------------- claims on replace_all
\* what the activations did for the links they have consumed: P(link,
\* entry, depth) for every consumed link of every activation, running or
\* returned
RangeOf(f) == {f[i] : i \in DOMAIN f}

\* C1: an include whose file was read while depth is at the ceiling has its
\* rendered content appended to the output unmodified.
C1_CeilingAppendsContent ==
    /\ \A k \in 1..Len(stack) : \A i \in 1..Len(stack[k].handled) :
          (stack[k].handled[i].outcome = "ceiling"
              /\ stack[k].links[i].link_type.tag = "Include")
          => stack[k].handled[i].appended = stack[k].handled[i].rendered[1]
    /\ returned # None =>
          \A i \in 1..Len(returned[1].handled) :
              (returned[1].handled[i].outcome = "ceiling"
                  /\ returned[1].links[i].link_type.tag = "Include")
              => returned[1].handled[i].appended
                     = returned[1].handled[i].rendered[1]

\* the activation at position i of the stack runs at depth i - 1, never
\* above the ceiling, and has called replace_all only from below the ceiling
DepthDiscipline ==
    \A i \in 1..Len(stack) :
        /\ stack[i].depth = i - 1
        /\ stack[i].depth <= MAX_LINK_NESTED_DEPTH
        /\ i < Len(stack) => stack[i].depth < MAX_LINK_NESTED_DEPTH

\* the links of activation i that are still to be started (the link a
\* caller is waiting on is started)
Remaining(i) ==
    Len(stack[i].links) - stack[i].next + 1 - (IF i < Len(stack) THEN 1 ELSE 0)

Phase == CASE pc = "start" -> 2 [] pc = "run" -> 1 [] OTHER -> 0

\* The measure of the work left: the phase, the links still to be started
\* at each of the depths 0..10, the number of activations.  Its length is
\* fixed by the ceiling, so the lexicographic order on it is well-founded.
Variant ==
    <<Phase>>
    \o [i \in 1..(MAX_LINK_NESTED_DEPTH + 1) |->
           IF i <= Len(stack) THEN Remaining(i) ELSE 0]
    \o <<Len(stack)>>

LexLess(a, b) ==
    \E k \in 1..Len(a) : a[k] < b[k] /\ \A j \in 1..(k - 1) : a[j] = b[j]

\* C2: whatever the include graph of the files, resolving a chapter from
\* depth 0 terminates, no activation of replace_all runs at a depth above 10,
\* and each nested activation runs one deeper than its caller, which is below
\* the ceiling.  Termination: every step lowers a well-founded measure, and
\* a run that is not over can take a step.
C2_TerminatesWithinCeiling ==
    /\ [](DepthDiscipline)
    /\ [](\A k \in 1..Len(Variant) : Variant[k] >= 0)
    /\ [](pc \in {"start", "run"} => CanStep)
    /\ [][LexLess(Variant', Variant)]_vars

\* a chapter over an include cycle has been resolved: the ceiling was
\* reached and the run is over
C2_Witness == pc = "done" /\ "Stack depth exceeded" \in RangeOf(log)

\* s with every link replaced by its substitute, the text between the links
\* kept, from link i and offset cursor on
RECURSIVE Splice(_, _, _, _, _)
Splice(s, links, subst, i, cursor) ==
    IF i > Len(links) THEN SliceFrom(s, cursor)
    ELSE Slice(s, cursor, links[i].start_index) \o subst[i]
         \o Splice(s, links, subst, i + 1, links[i].end_index)

\* for a returned activation: the directive text itself for a link that
\* failed, what was appended for it for any other link
Substitutes(r) ==
    [i \in 1..Len(r.links) |->
        IF r.handled[i].outcome = "error" THEN r.links[i].link_text
        ELSE r.handled[i].appended]

\* C3: when an include fails to render, the value replace_all returns has the
\* directive's text once, where the directive was, the text around it is
\* kept, every other link of the block is still handled, and the call does
\* not abort.
C3_FailedIncludeKeepsDirective ==
    /\ pc # "panic"
    /\ returned # None =>
          LET r == returned[1]
          IN  (\E i \in 1..Len(r.handled) : r.handled[i].outcome = "error")
              => /\ Len(r.handled) = Len(r.links)
                 /\ r.out = Splice(r.s, r.links, Substitutes(r), 1, 0)

\* an activation returned in which one include failed and another link put
\* text into the output
C3_Witness ==
    /\ returned # None
    /\ \E i, j \in 1..Len(returned[1].handled) :
          /\ returned[1].handled[i].outcome = "error"
          /\ returned[1].handled[j].outcome \in {"included", "escaped"}
          /\ returned[1].handled[j].appended # <<>>
    /\ returned[1].out # <<>>

\* what an escaped link must have given: the text without its first
\* character, no read, no nested activation
EscapedHandled(link, entry) ==
    link.link_type.tag = "Escaped" =>
        /\ entry.outcome = "escaped"
        /\ entry.appended = Tail(link.link_text)
        /\ entry.nreads = 0

\* C4: at every depth at which text is scanned, 0 through 10, an escaped
\* directive gives its text without the escape character, reads no file and
\* is not scanned again.
C4_EscapedAtEveryDepth ==
    /\ \A k \in 1..Len(stack) : \A i \in 1..Len(stack[k].handled) :
          EscapedHandled(stack[k].links[i], stack[k].handled[i])
    /\ returned # None =>
          \A i \in 1..Len(returned[1].handled) :
              EscapedHandled(returned[1].links[i], returned[1].handled[i])

\* C5: a text in which the scanner finds no occurrence is returned unchanged
\* and no file is read for it; texts made of unknown, empty and partial
\* directives and of plain text are such texts.
C5_NoOccurrenceIsIdentity ==
    /\ returned # None /\ returned[1].links = <<>> =>
          returned[1].out = returned[1].s /\ returned[1].nreads = 0
    /\ chapter \in NoLinkTexts /\ stack # <<>> => stack[1].links = <<>>
    /\ chapter \in NoLinkTexts /\ pc = "done" =>
          content = chapter /\ reads = <<>>

\* a chapter of an unknown directive and a partial one has been resolved
C5_Witness ==
    /\ pc = "done"
    /\ chapter = P_UNKNOWN \o P_PARTIAL
    /\ returned[1].links = <<>>

\* the characters of a text
Chars(s) == {s[k] : k \in 1..Len(s)}

\* no escaped directive can occur: no text has the escape character
NoEscapes ==
    /\ ESCAPE_CHAR \notin Chars(chapter)
    /\ \A q \in DOMAIN files : ESCAPE_CHAR \notin Chars(files[q])

\* whether the scanner finds an include directive in the text
HasIncludeLink(s) ==
    \E i \in 1..Len(find_links(s)) : find_links(s)[i].link_type.tag = "Include"

Mark(f, n) ==
    IF n = 0 THEN 0
    ELSE IF f.handled[n].outcome = "error" THEN f.links[n].start_index
    ELSE f.links[n].end_index

\* the text between the cursor and the start of link n
Gap(f, n) == Slice(f.s, Mark(f, n - 1), f.links[n].start_index)

\* what the loop has pushed for the first n links: for each the text
\* between the cursor and the link, then what was appended for the link
RECURSIVE Pushed(_, _)
Pushed(f, n) ==
    IF n = 0 THEN <<>>
    ELSE Pushed(f, n - 1) \o Gap(f, n) \o f.handled[n].appended

\* the cursor discipline of one activation; waiting: it has pushed the text
\* before its next link and waits for the nested activation to return
CursorDiscipline(f, waiting) ==
    LET n == Len(f.handled)
    IN  /\ f.next = n + 1
        /\ f.previous_end_index = Mark(f, n)
        /\ f.previous_end_index <= Len(f.s)
        /\ \A k \in 1..Len(f.links) :
               /\ f.links[k].start_index < f.links[k].end_index
               /\ f.links[k].end_index <= Len(f.s)
               /\ k > 1 => f.links[k - 1].end_index <= f.links[k].start_index
        /\ n < Len(f.links) =>
               f.previous_end_index <= f.links[n + 1].start_index
        /\ f.replaced = Pushed(f, n) \o (IF waiting THEN Gap(f, n + 1) ELSE <<>>)

\* C17: in every activation of replace_all the cursor previous_end_index
\* never decreases, is at most the length of the text and at most the start
\* of the next link (after a failed link too), no slice panics, and the text
\* outside the links that rendered is pushed once and in order: the output
\* is, link after link, the text from the cursor to the link and what was
\* appended for the link, then the text after the last cursor.
C17_CursorDiscipline ==
    /\ [](pc # "panic")
    /\ [](\A i \in 1..Len(stack) : CursorDiscipline(stack[i], i < Len(stack)))
    /\ [](returned # None =>
             LET r == returned[1]
                 n == Len(r.links)
             IN  /\ Len(r.handled) = n
                 /\ r.out = Pushed(r, n) \o SliceFrom(r.s, Mark(r, n)))
    /\ [][\A i \in 1..Min(Len(stack), Len(stack')) :
             stack'[i].previous_end_index >= stack[i].previous_end_index]_vars

\* an activation returned in which a link failed and a later link was
\* handled from the cursor set back to the start of the failed one
C17_Witness ==
    /\ returned # None
    /\ \E i \in 1..(Len(returned[1].handled) - 1) :
          /\ returned[1].handled[i].outcome = "error"
          /\ returned[1].handled[i + 1].outcome = "included"
    /\ returned[1].out # <<>>

\* ------------------------------------- the selector parser on its own
\* the state of replace_all while a single function is applied
Idle ==
    /\ files = NoFiles
    /\ chapter = <<>>
    /\ base = <<>>
    /\ stack = <<>>
    /\ content = <<>>
    /\ returned = None
    /\ reads = <<>>
    /\ log = <<>>

Call(fn, file_lines, file, range, shift, fields, token) ==
    [fn |-> fn, file_lines |-> file_lines, file |-> file, range |-> range,
     shift |-> shift, fields |-> fields, token |-> token,
     parsed |-> None, out |-> None]

\* the fields a selector is made of: empty, numbers (0 and a signed one
\* among them), names
SelectorFields ==
    {<<>>, <<"0">>, <<"1">>, <<"5">>, <<"1", "0">>, <<"+", "2">>,
     <<"-", "5">>, <<"t">>, <<"5", "x">>}

\* the payload token: the path f, then a colon and a field for every field
RECURSIVE TokenOf(_)
TokenOf(fields) ==
    IF fields = <<>> THEN <<"f">>
    ELSE TokenOf(SubSeq(fields, 1, Len(fields) - 1))
         \o <<":">> \o fields[Len(fields)]

FieldLists == UNION {[1..k -> SelectorFields] : k \in 0..MaxFields}

InitSel ==
    /\ Idle
    /\ pc = "parse"
    /\ \E fields \in FieldLists :
          call = Call("parse_include_path", <<>>, <<>>, RangeFull, ShiftNone,
                      fields, TokenOf(fields))

\* Link::from_capture hands the first token of the payload to
\* parse_include_path (line 300)
ParseIncludePath ==
    /\ pc = "parse"
    /\ call.fn = "parse_include_path"
    /\ call' = [call EXCEPT !.parsed = Some(parse_include_path(call.token))]
    /\ pc' = "parsed"
    /\ UNCHANGED <<files, chapter, base, stack, content, returned, reads, log>>

NextSel == ParseIncludePath

SpecSel == InitSel /\ [][NextSel]_vars

\* a field is numeric when it is a non-negative integer in decimal
\* notation, an explicit plus sign allowed
IsNumeric(f) ==
    LET ds == IF f # <<>> /\ f[1] = "+" THEN Tail(f) ELSE f
    IN  ds # <<>> /\ \A k \in 1..Len(ds) : ds[k] \in Digits

\* the selector the shape table gives for a list of fields
TableSelector(fields) ==
    LET has1 == Len(fields) >= 1
        has2 == Len(fields) >= 2
        N == ParseUsize(fields[1]).val
        M == ParseUsize(fields[2]).val
        lo == Max(N - 1, 0)
    IN  IF ~has1 \/ fields[1] = <<>>
        THEN IF has2 /\ IsNumeric(fields[2]) THEN MkRange(None, Some(M))
             ELSE RangeFull
        ELSE IF ~IsNumeric(fields[1]) THEN MkAnchor(fields[1])
        ELSE IF ~has2 THEN MkRange(Some(lo), Some(lo + 1))
        ELSE IF IsNumeric(fields[2]) THEN MkRange(Some(lo), Some(M))
        ELSE MkRange(Some(lo), None)

\* C7: the selector parser is total and follows the shape table: a number N
\* alone is the line [max(N-1,0), max(N-1,0)+1), N and an empty or
\* non-numeric second field the range from N-1 on, N and M the range
\* [N-1, M), an empty first field and M the range up to M, an empty first
\* field otherwise the full range, any other first field an anchor; fields
\* after the second are ignored.
C7_SelectorShapeTable ==
    pc = "parsed" =>
        /\ call.parsed # None
        /\ call.parsed[1] = Include(<<"f">>, TableSelector(call.fields))
        /\ call.parsed[1] =
               parse_include_path(TokenOf(SubSeq(call.fields, 1,
                                                 Min(2, Len(call.fields)))))

\* the line number 0 with a field that is ignored after it has been parsed
C7_Witness ==
    /\ pc = "parsed"
    /\ call.fields = <<<<"0">>, <<"5", "x">>, <<"1">>>>
    /\ call.parsed[1].range_or_anchor = MkRange(Some(0), None)

\* ---------------------------------------- range extraction on its own
DigitChar(k) ==
    CASE k = 0 -> "0" [] k = 1 -> "1" [] k = 2 -> "2" [] k = 3 -> "3"
      [] k = 4 -> "4" [] k = 5 -> "5" [] k = 6 -> "6" [] k = 7 -> "7"
      [] k = 8 -> "8" [] k = 9 -> "9"

\* the decimal notation of a number below 100
Decimal(n) ==
    IF n < 10 THEN <<DigitChar(n)>>
    ELSE <<DigitChar(n \div 10), DigitChar(n % 10)>>

\* the lines files are made of: an empty one, plain and indented ones
FileLines == {<<>>, <<"x">>, <<" ", "y">>}

LineLists == UNION {[1..k -> FileLines] : k \in 0..MaxLines}

\* the file of 25 numbered lines
NumberedLines == [k \in 1..25 |-> Decimal(k)]

\* The file with the given lines, every line ended by a newline; the last
\* newline may be left out when the last line is not empty.
RECURSIVE Terminated(_)
Terminated(ls) ==
    IF ls = <<>> THEN <<>> ELSE Head(ls) \o <<"\n">> \o Terminated(Tail(ls))

FileOf(ls, final_newline) ==
    IF final_newline \/ ls = <<>> \/ ls[Len(ls)] = <<>> THEN Terminated(ls)
    ELSE SubSeq(Terminated(ls), 1, Len(Terminated(ls)) - 1)

Bounds == {None} \cup {Some(n) : n \in 0..MaxIdx}

Shifts ==
    {ShiftNone, ShiftAuto}
    \cup {ShiftLeft(n) : n \in 0..MaxShift}
    \cup {ShiftRight(n) : n \in 0..MaxShift}

\* the selectors of the includes rendered: none, the two empty ones, N:M
RangeFieldLists ==
    {<<>>, <<<<>>>>, <<<<>>, <<>>>>}
    \cup {<<Decimal(n), Decimal(m)>> : n, m \in 0..MaxIdx}

InitRange ==
    /\ Idle
    /\ pc = "extract"
    /\ \/ \E ls \in LineLists, nl \in BOOLEAN, a, b \in Bounds, sh \in Shifts :
             call = Call("take_lines_with_shift", ls, FileOf(ls, nl),
                         MkRange(a, b), sh, <<>>, <<>>)
       \/ \E ls \in LineLists, nl \in BOOLEAN, fields \in RangeFieldLists :
             call = Call("include", ls, FileOf(ls, nl), RangeFull, ShiftNone,
                         fields, TokenOf(fields))
       \/ call = Call("include", NumberedLines, FileOf(NumberedLines, TRUE),
                      RangeFull, ShiftNone, <<Decimal(10), Decimal(20)>>,
                      TokenOf(<<Decimal(10), Decimal(20)>>))

\* take_lines_with_shift(s, range, shift)
TakeLinesWithShift ==
    /\ pc = "extract"
    /\ call.fn = "take_lines_with_shift"
    /\ call' = [call EXCEPT
                   !.out = Some(take_lines_with_shift(call.file, call.range,
                                                      call.shift))]
    /\ pc' = "extracted"
    /\ UNCHANGED <<files, chapter, base, stack, content, returned, reads, log>>

\* An include with a range selector: the token is parsed (line 300) and the
\* range is taken from the text of the file, without shift (line 330)
IncludeRange ==
    /\ pc = "extract"
    /\ call.fn = "include"
    /\ LET link_type == parse_include_path(call.token)
       IN  call' = [call EXCEPT
                       !.parsed = Some(link_type),
                       !.out = Some(take_lines_with_shift(
                                        call.file, link_type.range_or_anchor,
                                        ShiftNone))]
    /\ pc' = "extracted"
    /\ UNCHANGED <<files, chapter, base, stack, content, returned, reads, log>>

NextRange ==
    \/ TakeLinesWithShift
    \/ IncludeRange

SpecRange == InitRange /\ [][NextRange]_vars

\* the lines from..to of a line list, counted from 1, both included, the
\* range cut to the list
LinesFromTo(ls, from, to) == SubSeq(ls, Max(from, 1), Min(to, Len(ls)))

\* the lines joined by newlines
RECURSIVE Joined(_)
Joined(ls) ==
    IF ls = <<>> THEN <<>>
    ELSE IF Len(ls) = 1 THEN ls[1]
    ELSE Joined(SubSeq(ls, 1, Len(ls) - 1)) \o <<"\n">> \o ls[Len(ls)]

IsNM == call.fn = "include" /\ Len(call.fields) = 2 /\ call.fields[1] # <<>>
FieldN == ParseUsize(call.fields[1]).val
FieldM == ParseUsize(call.fields[2]).val

\* C6 as stated: a selector N:M with N >= 1 selects the lines N up to but
\* not including M (lines 10 through 19 for 10:20).
C6_EndExclusive ==
    pc = "extracted" /\ IsNM /\ FieldN >= 1 =>
        call.out[1] = Joined(LinesFromTo(call.file_lines, FieldN, FieldM - 1))

\* C6 as amended: a selector N:M with N >= 1 selects the lines N through M,
\* line M included (lines 10 through 20 for 10:20, 11 lines).
C6_EndInclusive ==
    pc = "extracted" /\ IsNM /\ FieldN >= 1 =>
        /\ call.parsed[1].range_or_anchor = MkRange(Some(FieldN - 1), Some(FieldM))
        /\ call.out[1] = Joined(LinesFromTo(call.file_lines, FieldN, FieldM))

\* {{#include f:10:20}} on the file of 25 numbered lines gave the 11 lines
\* 10 to 20
C6_Witness ==
    /\ pc = "extracted"
    /\ call.file_lines = NumberedLines
    /\ call.token = <<"f", ":", "1", "0", ":", "2", "0">>
    /\ call.out[1] = Joined([k \in 1..11 |-> Decimal(k + 9)])

\* C8: no selector, the empty selector after one colon and the selector "::"
\* parse to the same full range, and an include with any of them gives the
\* same text, all the lines of the file.
C8_FullFileForms ==
    pc = "extracted" /\ call.fn = "include"
        /\ call.fields \in {<<>>, <<<<>>>>, <<<<>>, <<>>>>} =>
        /\ call.parsed[1] = Include(<<"f">>, RangeFull)
        /\ call.out[1] = Joined(call.file_lines)

\* the include with the selector "::" on a file of several lines
C8_Witness ==
    /\ pc = "extracted"
    /\ call.token = <<"f", ":", ":">>
    /\ Len(call.file_lines) >= 2
    /\ call.out[1] = Joined(call.file_lines)

\* the number of a bound, an absent one standing for dflt
BoundOr(b, dflt) == IF b = None THEN dflt ELSE b[1]

\* C9: without shift, range extraction gives the lines of the file sliced by
\* [a, b), both bounds cut to the number of lines, an absent start being 0
\* and an absent end the number of lines, joined by newlines.
C9_RangeIsClippedSlice ==
    pc = "extracted" /\ call.fn = "take_lines_with_shift"
        /\ call.shift = ShiftNone =>
        LET n == Len(call.file_lines)
            a == Min(BoundOr(call.range.start, 0), n)
            b == Min(BoundOr(call.range.end, n), n)
        IN  call.out[1] = Joined([k \in 1..(b - a) |-> call.file_lines[a + k]])

\* a range inside the file and one reaching beyond its end were extracted
C9_Witness ==
    /\ pc = "extracted" /\ call.fn = "take_lines_with_shift"
    /\ call.shift = ShiftNone
    /\ call.range = MkRange(Some(1), Some(MaxIdx))
    /\ Len(call.file_lines) = 3
    /\ call.out[1] = Joined(SubSeq(call.file_lines, 2, 3))
    /\ call.out[1] # <<>>

\* C10: with a start above the end, or a start at or beyond the number of
\* lines, range extraction gives the empty string in every shift mode.
C10_EmptyRange ==
    pc = "extracted" /\ call.fn = "take_lines_with_shift" =>
        LET n == Len(call.file_lines)
            a == BoundOr(call.range.start, 0)
        IN  (a >= n \/ (call.range.end # None /\ a > call.range.end[1]))
            => call.out # None /\ call.out[1] = <<>>

\* the range 2..1 was extracted from a file of three lines with a shift to
\* the right
C10_Witness ==
    /\ pc = "extracted" /\ call.fn = "take_lines_with_shift"
    /\ call.range = MkRange(Some(2), Some(1))
    /\ call.shift = ShiftRight(2)
    /\ Len(call.file_lines) = 3
    /\ call.file_lines[3] # <<>>
    /\ call.out[1] = <<>>

\* --------------------------------------- anchor extraction on its own
\* the lines of the files: plain ones, the markers of the anchors a and b
\* (after a comment sign, with and without a space before the name)
L_X == <<"x">>
L_Y == <<" ", "y">>
L_START_A == <<"/", "/", " ">> \o LIT_ANCHOR_START \o <<" ", "a">>
L_END_A == <<"/", "/", " ">> \o LIT_ANCHOR_END \o <<"a">>
L_START_B == LIT_ANCHOR_START \o <<" ", "b">>
L_END_B == LIT_ANCHOR_END \o <<" ", "b">>

AnchorLines == {L_X, L_Y, L_START_A, L_END_A, L_START_B, L_END_B}

AnchorLineLists == UNION {[1..k -> AnchorLines] : k \in 0..MaxAnchorLines}

AnchorShifts == {ShiftNone, ShiftRight(1)}

AnchorCall(file_lines, file, anchor, shift) ==
    [fn |-> "take_anchored_lines_with_shift", file_lines |-> file_lines,
     file |-> file, anchor |-> anchor, shift |-> shift, out |-> None]

InitAnchor ==
    /\ Idle
    /\ pc = "extract"
    /\ \E ls \in AnchorLineLists, sh \in AnchorShifts :
          call = AnchorCall(ls, FileOf(ls, FALSE), <<"a">>, sh)

\* take_anchored_lines_with_shift(s, anchor, shift)
TakeAnchoredLinesWithShift ==
    /\ pc = "extract"
    /\ call.fn = "take_anchored_lines_with_shift"
    /\ call' = [call EXCEPT
                   !.out = Some(take_anchored_lines_with_shift(
                                    call.file, call.anchor, call.shift))]
    /\ pc' = "extracted"
    /\ UNCHANGED <<files, chapter, base, stack, content, returned, reads, log>>

NextAnchor == TakeAnchoredLinesWithShift

SpecAnchor == InitAnchor /\ [][NextAnchor]_vars

\* a line with a start marker / an end marker of the name, a marker line
StartsAnchor(l, name) == anchor_captures(l, LIT_ANCHOR_START) = Some(name)
EndsAnchor(l, name) == anchor_captures(l, LIT_ANCHOR_END) = Some(name)
IsMarkerLine(l) ==
    \/ anchor_captures(l, LIT_ANCHOR_START) # None
    \/ anchor_captures(l, LIT_ANCHOR_END) # None

\* the index of the first line of ls after line `after` that satisfies
\* Test, Len(ls) + 1 when there is none
FirstAfter(ls, after, Test(_)) ==
    LET found == {k \in (after + 1)..Len(ls) : Test(ls[k])}
    IN  IF found = {} THEN Len(ls) + 1
        ELSE CHOOSE k \in found : \A m \in found : k <= m

\* the first start marker of the name, and the first end marker after it
RegionStart(ls, name) == FirstAfter(ls, 0, LAMBDA l : StartsAnchor(l, name))
RegionEnd(ls, name) ==
    FirstAfter(ls, RegionStart(ls, name), LAMBDA l : EndsAnchor(l, name))

\* the lines from..to of ls that are not marker lines, in order
NonMarkers(ls, from, to) ==
    SelectSeq(SubSeq(ls, from, to), LAMBDA l : ~IsMarkerLine(l))

AnchorExtracted ==
    pc = "extracted" /\ call.fn = "take_anchored_lines_with_shift"

\* the start markers of the name inside the open region
StartsInside(ls, name) ==
    {k \in (RegionStart(ls, name) + 1)..(RegionEnd(ls, name) - 1) :
        StartsAnchor(ls[k], name)}

\* C11 as stated: a second start marker of the requested name inside the
\* open region restarts the capture, so only the lines after the last such
\* marker are in the output.
C11_SecondStartRestarts ==
    AnchorExtracted /\ call.shift = ShiftNone
        /\ StartsInside(call.file_lines, call.anchor) # {} =>
        LET ls == call.file_lines
            inside == StartsInside(ls, call.anchor)
            last == CHOOSE k \in inside : \A m \in inside : m <= k
        IN  call.out[1] =
                Joined(NonMarkers(ls, last + 1, RegionEnd(ls, call.anchor) - 1))

\* C11 as amended: a second start marker of the requested name inside the
\* open region is left out like any marker line and nothing else changes:
\* the lines captured before it stay in the output, followed by the lines
\* after it.
C11_SecondStartDropped ==
    AnchorExtracted /\ call.shift = ShiftNone
        /\ StartsInside(call.file_lines, call.anchor) # {} =>
        LET ls == call.file_lines
            inside == StartsInside(ls, call.anchor)
            second == CHOOSE k \in inside : \A m \in inside : k <= m
        IN  call.out[1] =
                Joined(NonMarkers(ls, RegionStart(ls, call.anchor) + 1,
                                  second - 1)
                       \o NonMarkers(ls, second + 1,
                                     RegionEnd(ls, call.anchor) - 1))

\* start, x, start, y, end: both x and y are in the output
C11_Witness ==
    /\ AnchorExtracted
    /\ call.file_lines = <<L_START_A, L_X, L_START_A, L_Y, L_END_A>>
    /\ call.shift = ShiftNone
    /\ call.out[1] = L_X \o <<"\n">> \o L_Y

\* C12: without a start marker of the requested name the result is empty
\* (an end marker of the name changes nothing, whatever the shift); with a
\* start marker and no end marker of the name after it the result is every
\* line after the start marker that is not a marker line, up to the end of
\* the file.
C12_NoStartOrNoEnd ==
    AnchorExtracted =>
        LET ls == call.file_lines
            n == Len(ls)
            start == RegionStart(ls, call.anchor)
        IN  /\ start = n + 1 => call.out[1] = <<>>
            /\ start <= n /\ RegionEnd(ls, call.anchor) = n + 1
                    /\ call.shift = ShiftNone =>
                   call.out[1] = Joined(NonMarkers(ls, start + 1, n))

\* a file with a start marker and no end marker gave the lines after it
C12_Witness ==
    /\ AnchorExtracted
    /\ call.file_lines = <<L_X, L_START_A, L_Y, L_END_B, L_X>>
    /\ call.shift = ShiftNone
    /\ call.out[1] = L_Y \o <<"\n">> \o L_X

\* C13: no line of the output is a marker line, of the requested name or of
\* another, and the output is the lines strictly inside the region that are
\* not marker lines, in their order.
C13_NoMarkerLineInOutput ==
    AnchorExtracted =>
        LET ls == call.file_lines
            inside == NonMarkers(ls, RegionStart(ls, call.anchor) + 1,
                                 RegionEnd(ls, call.anchor) - 1)
        IN  /\ \A k \in 1..Len(lines(call.out[1])) :
                   ~IsMarkerLine(lines(call.out[1])[k])
            /\ call.out[1] = Joined(shift_lines(inside, call.shift))

\* a region with the markers of another anchor inside
C13_Witness ==
    /\ AnchorExtracted
    /\ call.file_lines = <<L_START_A, L_START_B, L_X, L_END_B, L_END_A>>
    /\ call.shift = ShiftNone
    /\ call.out[1] = L_X

\* C19: only the first region of the requested name is captured: nothing
\* after the first end marker that follows the first start marker is in the
\* output, a region opened again included, and with no start
\* marker of the name nothing is captured.
C19_FirstRegionOnly ==
    AnchorExtracted /\ call.shift = ShiftNone =>
        LET ls == call.file_lines
            start == RegionStart(ls, call.anchor)
            end == RegionEnd(ls, call.anchor)
        IN  /\ end <= Len(ls) =>
                   call.out[1] = Joined(NonMarkers(ls, start + 1, end - 1))
            /\ Len(lines(call.out[1])) <= Max(end - start - 1, 0)
            /\ start = Len(ls) + 1 => call.out[1] = <<>>

\* the region is opened a second time after its end
C19_Witness ==
    /\ AnchorExtracted
    /\ call.file_lines = <<L_START_A, L_X, L_END_A, L_START_A, L_Y>>
    /\ call.shift = ShiftNone
    /\ call.out[1] = L_X

\* ------------------------------------------------- shifting on its own
\* the lines shifted: empty, not indented, indented by spaces, by a tab, by
\* a whitespace character of two bytes, and made of a single space
ShiftLineSet ==
    {<<>>, <<"x">>, <<" ", "x">>, <<" ", " ", "x", "y">>, <<" ">>,
     <<"\t", "x">>, <<NBSP, "x", "y">>}

ShiftLineLists == UNION {[1..k -> ShiftLineSet] : k \in 0..MaxLines}

\* the shift applied to the result of a first shift: the one undoing an
\* explicit shift, Auto once more after Auto
SecondShift(shift) ==
    CASE shift.tag = "Right" -> ShiftLeft(shift.n)
      [] shift.tag = "Left" -> ShiftRight(shift.n)
      [] shift.tag = "Auto" -> ShiftAuto
      [] shift.tag = "None" -> ShiftNone

ShiftCall(ls, shift) ==
    [fn |-> "shift_lines", lines |-> ls, shift |-> shift,
     out |-> None, out2 |-> None]

InitShift ==
    /\ Idle
    /\ pc = "shift"
    /\ \E ls \in ShiftLineLists, sh \in Shifts : call = ShiftCall(ls, sh)

\* shift_lines(lines, shift)
ShiftLines ==
    /\ pc = "shift"
    /\ call.fn = "shift_lines"
    /\ call' = [call EXCEPT !.out = Some(shift_lines(call.lines, call.shift))]
    /\ log' = log \o shift_lines_log(call.lines, call.shift)
    /\ pc' = "shifted"
    /\ UNCHANGED <<files, chapter, base, stack, content, returned, reads>>

\* shift_lines applied to the lines a first shift_lines returned
ShiftAgain ==
    /\ pc = "shifted"
    /\ call.fn = "shift_lines"
    /\ call' = [call EXCEPT
                   !.out2 = Some(shift_lines(call.out[1],
                                             SecondShift(call.shift)))]
    /\ log' = log \o shift_lines_log(call.out[1], SecondShift(call.shift))
    /\ pc' = "reshifted"
    /\ UNCHANGED <<files, chapter, base, stack, content, returned, reads>>

NextShift ==
    \/ ShiftLines
    \/ ShiftAgain

SpecShift == InitShift /\ [][NextShift]_vars

\* n spaces
Spaces(n) == [k \in 1..n |-> " "]

\* C14: Right(n) puts exactly n spaces before every line, the empty ones
\* included, and Left(n) applied to the result gives the original lines
\* back (with nothing but those spaces removed).
C14_RightThenLeftIsIdentity ==
    pc = "reshifted" /\ call.shift.tag = "Right" =>
        /\ Len(call.out[1]) = Len(call.lines)
        /\ \A k \in 1..Len(call.lines) :
               call.out[1][k] = Spaces(call.shift.n) \o call.lines[k]
        /\ call.out2[1] = call.lines
        /\ log = <<>>

\* lines with an empty one among them went right by two and back
C14_Witness ==
    /\ pc = "reshifted"
    /\ call.shift = ShiftRight(2)
    /\ call.lines = <<<<" ", "x">>, <<>>, <<"x">>>>
    /\ call.out[1] = <<<<" ", " ", " ", "x">>, <<" ", " ">>, <<" ", " ", "x">>>>
    /\ call.out2[1] = call.lines

\* whether p is a whitespace prefix of every non-empty line of ls
IsCommonWs(p, ls) ==
    /\ \A k \in 1..Len(p) : is_whitespace(p[k])
    /\ \A i \in 1..Len(ls) :
           ls[i] # <<>> => Len(ls[i]) >= Len(p) /\ SubSeq(ls[i], 1, Len(p)) = p

\* the number of characters of the longest whitespace prefix common to the
\* non-empty lines of ls (0 when there is no non-empty line)
CommonWsChars(ls) ==
    LET nonempty == {i \in 1..Len(ls) : ls[i] # <<>>}
        first == ls[CHOOSE i \in nonempty : TRUE]
        lens == {n \in 0..Len(first) : IsCommonWs(SubSeq(first, 1, n), ls)}
    IN  IF nonempty = {} THEN 0
        ELSE CHOOSE n \in lens : \A m \in lens : m <= n

\* C15: Auto removes from every line as many leading characters as the
\* longest whitespace prefix common to the non-empty lines has characters
\* (prefixes with a whitespace character of several bytes included), never
\* a character that is not whitespace, and nothing when that prefix is
\* empty.
C15_AutoRemovesCommonWhitespace ==
    pc = "shifted" /\ call.shift = ShiftAuto =>
        LET n == CommonWsChars(call.lines)
        IN  /\ Len(call.out[1]) = Len(call.lines)
            /\ \A k \in 1..Len(call.lines) :
                   call.out[1][k] = skip(call.lines[k], n)
            /\ log = <<>>

====
